---- MODULE Spec2Model ----
(***************************************************************************)
(* Model of the TradingView -> Bitget webhook relay (src/app/main.py).     *)
(*                                                                         *)
(* Python strings are sequences of tokens (a token is a fragment that the  *)
(* code never splits further), so that upper(), lower(), split(":"),       *)
(* endswith(".P"), startswith() and the f-string concatenations are        *)
(* computed rather than assumed.  JSON values are tagged records; a JSON   *)
(* object is the sequence of its key/value pairs in document order.        *)
(* Quantities are exact rationals n/d.  Time is in whole seconds.          *)
(***************************************************************************)
EXTENDS Integers, Sequences, FiniteSets, Bags, TLC

VARIABLES
    clock,                 \* time.time(), whole seconds
    nticks,                \* number of clock advances so far (bounds the model)
    _seen,                 \* main.py:28   dedup key -> first arrival time
    _contracts_set,        \* main.py:39
    _contracts_last_load,  \* main.py:40
    cfg,                   \* USE_GLOBAL_LONG_LOCK / LEVERAGE of this deployment
    pos,                   \* exchange side: held size per contract symbol
    pending,               \* bag of the requests received, waiting at `await req.body()`
    pc,                    \* position of the one running handler
    items, idx, now_t, accepted, skipped, results,   \* locals of tv()
    loc,                   \* locals of route_signal / place_buy / place_close
    calls,                 \* exchange calls made by the running handler
    response,              \* the last HTTP response sent
    lastRouted             \* history: key -> when and how often it was routed

vars == << clock, nticks, _seen, _contracts_set, _contracts_last_load, cfg, pos,
           pending, pc, items, idx, now_t, accepted, skipped, results, loc,
           calls, response, lastRouted >>

(***************************************************************************)
(* Program constants                                                       *)
(***************************************************************************)
IDEMP_TTL_SEC == 10
CONTRACTS_TTL_SEC == 600
USE_BALANCE_RATIO_PCT == 70

(***************************************************************************)
(* Bounds of the model                                                     *)
(***************************************************************************)
MaxTicks == 2
MaxPending == 2
MaxPos == 2

(***************************************************************************)
(* Strings                                                                 *)
(***************************************************************************)
UpperTok(t) ==
    CASE t = "btcusdt" -> "BTCUSDT"
      [] t = ".p"      -> ".P"
      [] t = "binance" -> "BINANCE"
      [] t = "open"    -> "OPEN"
      [] t = "close"   -> "CLOSE"
      [] t = "hold"    -> "HOLD"
      [] t = "_umcbl"  -> "_UMCBL"
      [] OTHER         -> t

LowerTok(t) ==
    CASE t = "OPEN"    -> "open"
      [] t = "CLOSE"   -> "close"
      [] t = "HOLD"    -> "hold"
      [] t = "Action"  -> "action"
      [] t = "SYMBOL"  -> "symbol"
      [] t = "Symbol"  -> "symbol"
      [] t = "Time"    -> "time"
      [] t = "Batch"   -> "batch"
      [] OTHER         -> t

Upper(s) == [i \in DOMAIN s |-> UpperTok(s[i])]
Lower(s) == [i \in DOMAIN s |-> LowerTok(s[i])]

EndsWith(s, t) == Len(s) >= 1 /\ s[Len(s)] = t
StartsWith(s, p) == Len(s) >= Len(p) /\ SubSeq(s, 1, Len(p)) = p

\* s.split(":")[-1]
RECURSIVE AfterLastColon(_)
AfterLastColon(s) ==
    IF \E i \in DOMAIN s : s[i] = ":"
    THEN AfterLastColon(Tail(s))
    ELSE s

Min(a, b) == IF a <= b THEN a ELSE b
Max(a, b) == IF a >= b THEN a ELSE b

(***************************************************************************)
(* JSON values and Python dicts                                            *)
(***************************************************************************)
JStr(s)  == [t |-> "str",  v |-> s]
JNum(s)  == [t |-> "num",  v |-> s]
JList(l) == [t |-> "list", v |-> l]
JObj(ps) == [t |-> "obj",  v |-> ps]
JNull    == [t |-> "null", v |-> <<>>]

\* d[k] = v on an insertion-ordered dict
DictPut(d, k, v) ==
    IF \E i \in DOMAIN d : d[i][1] = k
    THEN [i \in DOMAIN d |-> IF d[i][1] = k THEN <<k, v>> ELSE d[i]]
    ELSE Append(d, <<k, v>>)

DictHas(d, k) == \E i \in DOMAIN d : d[i][1] = k

\* d.get(k, default)
DictGet(d, k, default) ==
    IF DictHas(d, k)
    THEN d[CHOOSE i \in DOMAIN d : d[i][1] = k][2]
    ELSE default

\* json.loads of an object: the pairs in document order, a repeated key
\* keeps its first position and takes its last value
RECURSIVE DictOfPairs(_, _)
DictOfPairs(ps, d) ==
    IF ps = <<>> THEN d
    ELSE DictOfPairs(Tail(ps), DictPut(d, Head(ps)[1], Head(ps)[2]))

RECURSIVE NormInto(_, _)
NormInto(d, out) ==
    IF d = <<>> THEN out
    ELSE NormInto(Tail(d), DictPut(out, Lower(Head(d)[1]), Head(d)[2]))

\* a normalisation that lower-cases the string values as well
norm_keys_values(d) ==
    LET n == NormInto(d, <<>>)
    IN  [i \in DOMAIN n |-> << n[i][1], IF n[i][2].t = "str" THEN JStr(Lower(n[i][2].v))
                                                              ELSE n[i][2] >>]

norm_keys(d) == NormInto(d, <<>>)

\* str(v)
StrOf(v) ==
    CASE v.t = "str"  -> v.v
      [] v.t = "num"  -> v.v
      [] v.t = "null" -> <<"None">>
      [] OTHER        -> <<"<repr>">>

(***************************************************************************)
(* parse_tv_payload                                                        *)
(* A body is blank, one JSON document, or several lines each of which is   *)
(* blank, a JSON document or text that json.loads rejects.                 *)
(***************************************************************************)
BlankBody      == [kind |-> "blank", val |-> JNull, lines |-> <<>>]
DocBody(j)     == [kind |-> "doc",   val |-> j,     lines |-> <<>>]
LinesBody(ls)  == [kind |-> "lines", val |-> JNull, lines |-> ls]
BlankLine      == [kind |-> "blank",   val |-> JNull]
DocLine(j)     == [kind |-> "doc",     val |-> j]
GarbageLine    == [kind |-> "garbage", val |-> JNull]

RECURSIVE BatchItems(_)
BatchItems(l) ==
    IF l = <<>> THEN <<>>
    ELSE IF Head(l).t = "obj"
         THEN <<norm_keys(DictOfPairs(Head(l).v, <<>>))>> \o BatchItems(Tail(l))
         ELSE BatchItems(Tail(l))

\* a loop that drops the lines it cannot parse
RECURSIVE ParseLinesSkipBad(_, _)
ParseLinesSkipBad(ls, acc) ==
    IF ls = <<>> THEN [raised |-> FALSE, items |-> acc]
    ELSE LET l == Head(ls) IN
         IF l.kind = "doc" /\ l.val.t = "obj"
         THEN ParseLinesSkipBad(Tail(ls), Append(acc, norm_keys(DictOfPairs(l.val.v, <<>>))))
         ELSE ParseLinesSkipBad(Tail(ls), acc)

\* the loop of lines 174-177; raised = json.loads or norm_keys raised
RECURSIVE ParseLines(_, _)
ParseLines(ls, acc) ==
    IF ls = <<>> THEN [raised |-> FALSE, items |-> acc]
    ELSE LET l == Head(ls) IN
         IF l.kind = "blank" THEN ParseLines(Tail(ls), acc)
         ELSE IF l.kind = "doc" /\ l.val.t = "obj"
         THEN ParseLines(Tail(ls), Append(acc, norm_keys(DictOfPairs(l.val.v, <<>>))))
         ELSE [raised |-> TRUE, items |-> <<>>]

parse_tv_payload(raw) ==
    IF raw.kind = "blank" THEN [raised |-> FALSE, items |-> <<>>]
    ELSE IF raw.kind = "doc" /\ raw.val.t = "obj"
    THEN LET data == DictOfPairs(raw.val.v, <<>>)
             b    == DictGet(data, <<"batch">>, JNull)
         IN  IF b.t = "list"
             THEN [raised |-> FALSE, items |-> BatchItems(b.v)]
             ELSE [raised |-> FALSE, items |-> <<norm_keys(data)>>]
    ELSE IF raw.kind = "doc"
    THEN ParseLines(<<DocLine(raw.val)>>, <<>>)
    ELSE ParseLines(raw.lines, <<>>)

(***************************************************************************)
(* is_dup                                                                  *)
(***************************************************************************)
\* eviction that also drops the entry recorded exactly TTL ago
EvictedAtCutoff(seen, now) ==
    LET keep == {k \in DOMAIN seen : ~(seen[k] <= now - IDEMP_TTL_SEC)}
    IN  [k \in keep |-> seen[k]]

\* lines 181-184: drop every entry recorded before now_t - TTL
Evicted(seen, now) ==
    LET keep == {k \in DOMAIN seen : ~(seen[k] < now - IDEMP_TTL_SEC)}
    IN  [k \in keep |-> seen[k]]

\* is_dup whose lookup does not see what another handler has recorded
is_dup_blind(seen, key, now) ==
    LET ev == Evicted(seen, now) IN
    [dup |-> FALSE, seen |-> [k \in DOMAIN ev \cup {key} |-> IF k = key THEN now ELSE ev[k]]]

\* is_dup that forgets to record a new key
is_dup_norecord(seen, key, now) ==
    LET ev == Evicted(seen, now) IN
    [dup |-> key \in DOMAIN ev, seen |-> ev]

\* lines 185-188: the returned flag and the new _seen
is_dup(seen, key, now) ==
    LET ev == Evicted(seen, now) IN
    IF key \in DOMAIN ev
    THEN [dup |-> TRUE,  seen |-> ev]
    ELSE [dup |-> FALSE, seen |-> [k \in DOMAIN ev \cup {key} |->
                                      IF k = key THEN now ELSE ev[k]]]

\* line 367
DedupKey(obj) ==
    DictGet(obj, <<"symbol">>, JNull).v \o <<"|">>
        \o DictGet(obj, <<"action">>, JNull).v \o <<"|">>
        \o StrOf(DictGet(obj, <<"time">>, JStr(<<>>)))

(***************************************************************************)
(* Quantities: exact rationals n/d with d > 0                              *)
(***************************************************************************)
Q(n, d) == [n |-> n, d |-> d]
QZero == Q(0, 1)
QLe(a, b) == a.n * b.d <= b.n * a.d
QEq(a, b) == a.n * b.d = b.n * a.d
QPos(a) == a.n > 0

\* math.ceil in the place of math.floor
round_up(x, step) ==
    IF step.n > 0
    THEN Q((((x.n * step.d) + (x.d * step.n) - 1) \div (x.d * step.n)) * step.n, step.d)
    ELSE x

\* math.floor(x / step) * step if step > 0 else x
round_down(x, step) ==
    IF step.n > 0
    THEN Q(((x.n * step.d) \div (x.d * step.n)) * step.n, step.d)
    ELSE x

\* lines 273-275 before quantization: avail * 0.70 * max(1, LEVERAGE) / px
Desired(avail, lev, px) == Q(avail * USE_BALANCE_RATIO_PCT * Max(1, lev), 100 * px)

\* line 267-271: the step read from the contract metadata, "0.001" when the
\* exchange reports none
DefaultStep == Q(1, 1000)
StepOf(cinfo) == IF cinfo.has THEN cinfo.step ELSE DefaultStep

(***************************************************************************)
(* Symbols, contracts cache and resolver                                   *)
(***************************************************************************)
NoSymbol == <<>>
BTC_UMCBL == <<"BTCUSDT", "_UMCBL">>
BTC_DMCBL == <<"BTCUSDT", "_DMCBL">>
BTC_XYZ == <<"BTCUSDT", "_XYZ">>
PENDLE_UMCBL == <<"PENDLEUSDT", "_UMCBL">>

\* lines 32-36
CUSTOM_OVERRIDES == << << <<"PENDLEUSDT", ".P">>, PENDLE_UMCBL >> >>

IsSuffixTok(t) == t \in {"_UMCBL", "_DMCBL", "_CMCBL", "_XYZ"}

\* line 81: the cache is used as it is
CacheFresh(force, cset, lastLoad, now) ==
    ~force /\ cset # {} /\ (now - lastLoad < CONTRACTS_TTL_SEC)

\* lines 84-89: the symbols of a 200 answer whose data is a list
FreshSet(out, listing) ==
    IF out = "ok" THEN {Upper(s) : s \in listing} ELSE {}

\* a refresh that adds to the index and stamps the load time in any case
AfterLoadMerge(out, listing, cset, lastLoad, now) ==
    [set |-> cset \cup FreshSet(out, listing), last |-> now]

\* lines 92-94: [set, last] after the answer
AfterLoad(out, listing, cset, lastLoad, now) ==
    IF FreshSet(out, listing) # {}
    THEN [set |-> FreshSet(out, listing), last |-> now]
    ELSE [set |-> cset, last |-> lastLoad]

\* the suffixes tried in the order _DMCBL, _UMCBL, _CMCBL
ResolutionsInverseFirst(tv_symbol, cset) ==
    LET key  == Upper(tv_symbol)
        sym0 == AfterLastColon(key)
        base == IF EndsWith(sym0, ".P") THEN SubSeq(sym0, 1, Len(sym0) - 1) ELSE sym0
        matches == {c \in cset : StartsWith(c, base) /\ Len(c) > Len(base)
                                   /\ IsSuffixTok(c[Len(base) + 1])}
    IN  IF DictHas(CUSTOM_OVERRIDES, key)
        THEN {DictGet(CUSTOM_OVERRIDES, key, NoSymbol)}
        ELSE IF base \o <<"_DMCBL">> \in cset THEN {base \o <<"_DMCBL">>}
        ELSE IF base \o <<"_UMCBL">> \in cset THEN {base \o <<"_UMCBL">>}
        ELSE IF base \o <<"_CMCBL">> \in cset THEN {base \o <<"_CMCBL">>}
        ELSE IF matches # {} THEN matches
        ELSE {NoSymbol}

\* lines 117-155: the symbols resolve_tv_symbol may return (matches[0] of
\* line 139 is whichever element the set iteration yields first)
Resolutions(tv_symbol, cset) ==
    LET key  == Upper(tv_symbol)
        sym0 == AfterLastColon(key)
        base == IF EndsWith(sym0, ".P") THEN SubSeq(sym0, 1, Len(sym0) - 1) ELSE sym0
        matches == {c \in cset : StartsWith(c, base) /\ Len(c) > Len(base)
                                   /\ IsSuffixTok(c[Len(base) + 1])}
    IN  IF DictHas(CUSTOM_OVERRIDES, key)
        THEN {DictGet(CUSTOM_OVERRIDES, key, NoSymbol)}
        ELSE IF base \o <<"_UMCBL">> \in cset THEN {base \o <<"_UMCBL">>}
        ELSE IF base \o <<"_DMCBL">> \in cset THEN {base \o <<"_DMCBL">>}
        ELSE IF base \o <<"_CMCBL">> \in cset THEN {base \o <<"_CMCBL">>}
        ELSE IF matches # {} THEN matches
        ELSE {NoSymbol}

(***************************************************************************)
(* The exchange as the program sees it                                     *)
(***************************************************************************)
\* requests.request answers 200 with the documented JSON ("ok"), a non-200
\* status ("non200"), 200 with a body that is not the documented JSON
\* ("raw", line 75), or raises ConnectionError/Timeout ("neterr", line 71)
Outcomes == {"ok", "non200", "raw", "neterr"}

ExSyms == {BTC_UMCBL, PENDLE_UMCBL}
\* the order in which all-position lists the positions
PosOrder == <<PENDLE_UMCBL, BTC_UMCBL>>


NoOrder == [symbol |-> NoSymbol, size |-> QZero, side |-> "", reduceOnly |-> ""]

\* lines 281-289
BuyBody(symbol, qty) ==
    [symbol |-> symbol, size |-> qty, side |-> "buy", reduceOnly |-> "false"]

\* a close that does not use the held size
CloseBodyLarge(symbol, qty) ==
    [symbol |-> symbol, size |-> Q(1000000, 1), side |-> "sell", reduceOnly |-> "true"]

\* lines 300-308
CloseBody(symbol, qty) ==
    [symbol |-> symbol, size |-> qty, side |-> "sell", reduceOnly |-> "true"]

\* one entry of the call log: held is the exchange's book when the call is
\* made, ret what the calling helper gets out of the answer (price, balance,
\* step; for the contracts listing the set of symbols of its data)
Call(i, ep, out, order, book, ret) ==
    [item |-> i, ep |-> ep, out |-> out, order |-> order, held |-> book, ret |-> ret]

\* lines 226-231: the list get_positions returns
get_positions(out, book) ==
    IF out = "ok"
    THEN [i \in DOMAIN PosOrder |-> [symbol |-> PosOrder[i], total |-> book[PosOrder[i]]]]
    ELSE <<>>

\* lines 233-240
get_pos_size(plist, symbol) ==
    IF \E i \in DOMAIN plist : plist[i].symbol = symbol
    THEN plist[CHOOSE i \in DOMAIN plist : plist[i].symbol = symbol
                 /\ \A j \in 1..(i - 1) : plist[j].symbol # symbol].total
    ELSE 0

\* a lock that looks at the first listed position only
any_long_open_first(plist) ==
    IF plist # <<>> /\ plist[1].total > 0 THEN plist[1].symbol ELSE NoSymbol

\* lines 245-252: the symbol of the first position with total > 0, or NoSymbol
any_long_open(plist) ==
    IF \E i \in DOMAIN plist : plist[i].total > 0
    THEN plist[CHOOSE i \in DOMAIN plist : plist[i].total > 0
                 /\ \A j \in 1..(i - 1) : ~(plist[j].total > 0)].symbol
    ELSE NoSymbol

\* the exchange's book after it executed an order
Executed(book, order) ==
    IF order.symbol \notin DOMAIN book THEN book
    ELSE IF order.side = "buy"
    THEN [book EXCEPT ![order.symbol] = Min(MaxPos, @ + (order.size.n \div order.size.d))]
    ELSE [book EXCEPT ![order.symbol] = Max(0, @ - (order.size.n \div order.size.d))]

(***************************************************************************)
(* Results and responses                                                   *)
(***************************************************************************)
NoCalc == [avail |-> 0, use |-> QZero, lev |-> 0, px |-> 0, step |-> QZero]

Result(ok, has, reason, skip, qty, price, calc) ==
    [ok |-> ok, has |-> has, reason |-> reason, skipped |-> skip,
     qty |-> qty, price |-> price, calc |-> calc]

Reject(reason) == Result(FALSE, {"ok", "reason"}, reason, <<>>, QZero, 0, NoCalc)
Skip(why)      == Result(TRUE, {"ok", "skipped"}, <<>>, why, QZero, 0, NoCalc)

\* results.insert(0, res)
PrependResult(rs, r) == <<r>> \o rs

\* results.append(res)
AppendResult(rs, r) == Append(rs, r)

NoResponse == [status |-> 0, has |-> {}, ok |-> FALSE, accepted |-> 0, skipped |-> 0,
               items |-> 0, results |-> <<>>, err |-> ""]

\* lines 382-385
\* a response whose items counts the routed items only
NormalResponseRouted(acc, skp, its, rs) ==
    [status |-> 200, has |-> {"ok", "accepted", "skipped", "items", "results", "v"},
     ok |-> TRUE, accepted |-> acc, skipped |-> skp, items |-> acc + skp,
     results |-> rs, err |-> ""]

\* lines 382-385
NormalResponse(acc, skp, its, rs) ==
    [status |-> 200, has |-> {"ok", "accepted", "skipped", "items", "results", "v"},
     ok |-> TRUE, accepted |-> acc, skipped |-> skp, items |-> Len(its),
     results |-> rs, err |-> ""]

\* the exception leaves the handler: the framework answers 500
UnhandledResponse500 ==
    [status |-> 500, has |-> {}, ok |-> FALSE, accepted |-> 0, skipped |-> 0, items |-> 0,
     results |-> <<>>, err |-> "unhandled"]

\* line 388
UnhandledResponse ==
    [status |-> 200, has |-> {"ok", "accepted", "items", "err", "v"},
     ok |-> TRUE, accepted |-> 0, skipped |-> 0, items |-> 0,
     results |-> <<>>, err |-> "unhandled"]

NoLoc == [act |-> <<>>, sym_tv |-> <<>>, symbol |-> NoSymbol, px |-> 0, avail |-> 0, qty |-> QZero]

(***************************************************************************)
(* Inbound bodies                                                          *)
(***************************************************************************)
TvBTC == <<"BINANCE", ":", "BTCUSDT", ".P">>
TvPendle == <<"PENDLEUSDT", ".P">>
TvNope == <<"NOPE">>

Sig(act, sym, time) ==
    JObj(<< << <<"action">>, JStr(act) >>, << <<"symbol">>, JStr(sym) >>,
            << <<"time">>, JStr(time) >> >>)

Batch(l) == DocBody(JObj(<< << <<"batch">>, JList(l) >> >>))

OpenBTC == Sig(<<"open">>, TvBTC, <<"t1">>)
CloseBTC == Sig(<<"close">>, TvBTC, <<"t1">>)
CloseBTC2 == Sig(<<"close">>, TvBTC, <<"t2">>)
OpenPendle == Sig(<<"OPEN">>, TvPendle, <<"t1">>)
HoldBTC == Sig(<<"hold">>, TvBTC, <<"t1">>)
HoldNope == Sig(<<"hold">>, TvNope, <<"t1">>)
NoSymbolSig == Sig(<<"open">>, <<>>, <<"t1">>)
ClosePendle == Sig(<<"close">>, TvPendle, <<"t1">>)
MixedCaseClose ==
    JObj(<< << <<"Action">>, JStr(<<"CLOSE">>) >>, << <<"SYMBOL">>, JStr(TvBTC) >>,
            << <<"Time">>, JStr(<<"t1">>) >> >>)
NoActionSig == Sig(<<>>, TvBTC, <<"t1">>)
NoSymbolKey == JObj(<< << <<"action">>, JStr(<<"open">>) >> >>)
NumAction == JObj(<< << <<"action">>, JNum(<<"1">>) >>, << <<"symbol">>, JStr(TvBTC) >> >>)

(***************************************************************************)
(* Steps of the program                                                    *)
(***************************************************************************)
\* history only: the routing of the current item ended in a reject or in an
\* exception, noted by the step that ends it
NoteOutcome ==
    LET key == DedupKey(items[idx])
        failed == pc' = "except" \/ (pc' = "loop" /\ ~results'[Len(results')].ok)
    IN  IF key \in DOMAIN lastRouted /\ failed
        THEN [lastRouted EXCEPT ![key].res = "failed"]
        ELSE lastRouted

\* an item of the batch is finished with a result that is counted
Finish(res) ==
    /\ results' = AppendResult(results, res)
    /\ accepted' = IF res.ok THEN accepted + 1 ELSE accepted
    /\ skipped' = IF res.ok THEN skipped ELSE skipped + 1
    /\ idx' = idx + 1
    /\ pc' = "loop"
    /\ loc' = NoLoc

\* an exception leaves route_signal and the for loop (line 386)
Raise ==
    /\ pc' = "except"
    /\ loc' = NoLoc
    /\ UNCHANGED << results, accepted, skipped, idx >>

\* lines 97-102: startup
Warmup(e) ==
    /\ pc = "boot"
    /\ \E out \in e.outs, listing \in e.listings :
         LET r == AfterLoad(out, listing, _contracts_set, _contracts_last_load, clock) IN
         /\ listing = {} \/ out = "ok"
         /\ _contracts_set' = r.set
         /\ _contracts_last_load' = r.last
         /\ calls' = << Call(0, "contracts", out, NoOrder, pos, listing) >>
    /\ pc' = "idle"
    /\ UNCHANGED << clock, nticks, _seen, cfg, pos, pending, items, idx, now_t,
                    accepted, skipped, results, loc, response, lastRouted >>

\* time passes; the program reads the clock at lines 356 and 80 only, so the
\* passing of time is taken just before those reads
Tick(e) ==
    /\ pc \in {"idle", "resolve"}
    /\ nticks < MaxTicks
    /\ \E d \in e.ticks : clock' = clock + d
    /\ nticks' = nticks + 1
    /\ UNCHANGED << _seen, _contracts_set, _contracts_last_load, cfg, pos, pending, pc,
                    items, idx, now_t, accepted, skipped, results, loc, calls,
                    response, lastRouted >>

\* a POST /tv request reaches the server
Arrive(e) ==
    /\ pc = "idle"
    /\ BagCardinality(pending) < MaxPending
    /\ \E b \in e.bodies : pending' = pending (+) SetToBag({b})
    /\ UNCHANGED << clock, nticks, _seen, _contracts_set, _contracts_last_load, cfg, pos,
                    pc, items, idx, now_t, accepted, skipped, results, loc, calls,
                    response, lastRouted >>

\* a handler that takes a body it cannot parse for an empty one
BeginLenient ==
    /\ pc = "idle"
    /\ \E raw \in BagToSet(pending) :
         LET p == parse_tv_payload(raw) IN
         /\ pending' = pending (-) SetToBag({raw})
         /\ items' = p.items
         /\ pc' = "loop"
    /\ idx' = 1
    /\ now_t' = clock
    /\ accepted' = 0
    /\ skipped' = 0
    /\ results' = <<>>
    /\ calls' = <<>>
    /\ loc' = NoLoc
    /\ UNCHANGED << clock, nticks, _seen, _contracts_set, _contracts_last_load, cfg, pos,
                    response, lastRouted >>

\* a POST /tv request reaches the server while a handler is running: the
\* handler does not yield (no await after line 349), the request waits
ArriveBusy(e) ==
    /\ pc \notin {"boot", "idle"}
    /\ BagCardinality(pending) < MaxPending
    /\ \E b \in e.bodies : pending' = pending (+) SetToBag({b})
    /\ UNCHANGED << clock, nticks, _seen, _contracts_set, _contracts_last_load, cfg, pos,
                    pc, items, idx, now_t, accepted, skipped, results, loc, calls,
                    response, lastRouted >>

\* lines 349-356: the event loop runs the handler of one waiting request
Begin ==
    /\ pc = "idle"
    /\ \E raw \in BagToSet(pending) :
         LET p == parse_tv_payload(raw) IN
         /\ pending' = pending (-) SetToBag({raw})
         /\ items' = p.items
         /\ pc' = IF p.raised THEN "except" ELSE "loop"
    /\ idx' = 1
    /\ now_t' = clock
    /\ accepted' = 0
    /\ skipped' = 0
    /\ results' = <<>>
    /\ calls' = <<>>
    /\ loc' = NoLoc
    /\ UNCHANGED << clock, nticks, _seen, _contracts_set, _contracts_last_load, cfg, pos,
                    response, lastRouted >>

\* history only: key was handed to route_signal at time t; n counts the
\* routings of key, d the duplicates suppressed since (at most 2 are counted),
\* pd the duplicates suppressed before this routing, res whether the routing failed
NoteRouted(h, key, t) ==
    [k \in DOMAIN h \cup {key} |->
        IF k = key
        THEN IF key \in DOMAIN h
             THEN [t |-> t, n |-> h[key].n + 1, d |-> 0, pd |-> h[key].d, res |-> "routed"]
             ELSE [t |-> t, n |-> 1, d |-> 0, pd |-> 0, res |-> "routed"]
        ELSE h[k]]

NoteDup(h, key) ==
    IF key \in DOMAIN h
    THEN [h EXCEPT ![key].d = Min(2, @ + 1)]
    ELSE h

\* line 318
MissingFields(act, sym_tv) == act = <<>> \/ sym_tv = <<>>

\* line 362
InvalidObject(obj) ==
    \/ DictGet(obj, <<"action">>, JNull).t # "str"
    \/ DictGet(obj, <<"symbol">>, JNull).t # "str"

\* lines 358-374 and 316-319: one item up to the call of resolve_tv_symbol
Item ==
    /\ pc = "loop"
    /\ idx <= Len(items)
    /\ LET obj == items[idx] IN
       IF InvalidObject(obj)
       THEN /\ Finish(Reject(<<"invalid object">>))
            /\ UNCHANGED << _seen, lastRouted >>
       ELSE LET key == DedupKey(obj)
                d   == is_dup(_seen, key, now_t)
                act == Lower(DictGet(obj, <<"action">>, JNull).v)
                sym_tv == DictGet(obj, <<"symbol">>, JNull).v
            IN  /\ _seen' = d.seen
                /\ IF d.dup
                   THEN /\ results' = AppendResult(results, Skip(<<"duplicate">>))
                        /\ idx' = idx + 1
                        /\ lastRouted' = NoteDup(lastRouted, key)
                        /\ UNCHANGED << pc, loc, accepted, skipped >>
                   ELSE /\ lastRouted' =
                             IF MissingFields(act, sym_tv)
                             THEN [NoteRouted(lastRouted, key, now_t) EXCEPT ![key].res = "failed"]
                             ELSE NoteRouted(lastRouted, key, now_t)
                        /\ IF MissingFields(act, sym_tv)
                           THEN Finish(Reject(<<"missing fields">>))
                           ELSE /\ pc' = "resolve"
                                /\ loc' = [NoLoc EXCEPT !.act = act, !.sym_tv = sym_tv]
                                /\ UNCHANGED << results, accepted, skipped, idx >>
    /\ UNCHANGED << clock, nticks, _contracts_set, _contracts_last_load, cfg, pos, pending,
                    items, now_t, calls, response >>

\* every action but open is taken for close
DispatchElseClose(cset) ==
    \E symbol \in Resolutions(loc.sym_tv, cset) :
       IF symbol = NoSymbol
       THEN Finish(Reject(<<"symbol resolve failed for ">> \o loc.sym_tv))
       ELSE IF loc.act = <<"open">>
       THEN /\ pc' = IF cfg.lock THEN "lock" ELSE "price"
            /\ loc' = [loc EXCEPT !.symbol = symbol]
            /\ UNCHANGED << results, accepted, skipped, idx >>
       ELSE /\ pc' = "possize"
            /\ loc' = [loc EXCEPT !.symbol = symbol]
            /\ UNCHANGED << results, accepted, skipped, idx >>

\* lines 321-338 after the contracts cache is settled
Dispatch(cset) ==
    \E symbol \in Resolutions(loc.sym_tv, cset) :
       IF symbol = NoSymbol
       THEN Finish(Reject(<<"symbol resolve failed for ">> \o loc.sym_tv))
       ELSE IF loc.act = <<"open">>
       THEN /\ pc' = IF cfg.lock THEN "lock" ELSE "price"
            /\ loc' = [loc EXCEPT !.symbol = symbol]
            /\ UNCHANGED << results, accepted, skipped, idx >>
       ELSE IF loc.act = <<"close">>
       THEN /\ pc' = "possize"
            /\ loc' = [loc EXCEPT !.symbol = symbol]
            /\ UNCHANGED << results, accepted, skipped, idx >>
       ELSE Finish(Reject(<<"unknown action ">> \o loc.act))

\* lines 115 and 78-95, then the rest of resolve_tv_symbol and route_signal
Resolve(e) ==
    /\ pc = "resolve"
    /\ IF CacheFresh(FALSE, _contracts_set, _contracts_last_load, clock)
       THEN /\ Dispatch(_contracts_set)
            /\ UNCHANGED << _contracts_set, _contracts_last_load, calls >>
       ELSE \E out \in e.outs, listing \in e.listings :
            LET r == AfterLoad(out, listing, _contracts_set, _contracts_last_load, clock) IN
            /\ listing = {} \/ out = "ok"
            /\ calls' = Append(calls, Call(idx, "contracts", out, NoOrder, pos, listing))
            /\ IF out = "neterr"
               THEN Raise /\ UNCHANGED << _contracts_set, _contracts_last_load >>
               ELSE /\ _contracts_set' = r.set
                    /\ _contracts_last_load' = r.last
                    /\ Dispatch(r.set)
    /\ UNCHANGED << clock, nticks, _seen, cfg, pos, pending, items, now_t, response >>
    /\ lastRouted' = NoteOutcome

\* lines 328-333 with lines 242-252 (USE_GLOBAL_LONG_LOCK set)
AnyLongOpen(e) ==
    /\ pc = "lock"
    /\ \E out \in e.outs :
         LET locked_sym == any_long_open(get_positions(out, pos)) IN
         /\ calls' = Append(calls, Call(idx, "positions", out, NoOrder, pos, QZero))
         /\ IF out = "neterr" THEN Raise
            ELSE IF locked_sym # NoSymbol
            THEN Finish(Skip(<<"already long ">> \o locked_sym))
            ELSE /\ pc' = "price"
                 /\ UNCHANGED << results, accepted, skipped, idx, loc >>
    /\ UNCHANGED << clock, nticks, _seen, _contracts_set, _contracts_last_load, cfg, pos,
                    pending, items, now_t, response >>
    /\ lastRouted' = NoteOutcome

\* lines 256-259 with lines 209-216
GetLastPrice(e) ==
    /\ pc = "price"
    /\ \E out \in e.outs, last \in e.prices :
         LET px == IF out = "ok" THEN last ELSE 0 IN
         /\ out = "ok" \/ last = 0
         /\ calls' = Append(calls, Call(idx, "ticker", out, NoOrder, pos, Q(px, 1)))
         /\ IF out = "neterr" THEN Raise
            ELSE IF px <= 0 THEN Finish(Reject(<<"no price">>))
            ELSE /\ pc' = "avail"
                 /\ loc' = [loc EXCEPT !.px = px]
                 /\ UNCHANGED << results, accepted, skipped, idx >>
    /\ UNCHANGED << clock, nticks, _seen, _contracts_set, _contracts_last_load, cfg, pos,
                    pending, items, now_t, response >>
    /\ lastRouted' = NoteOutcome

\* lines 261-264 with lines 194-207
GetAccountAvailable(e) ==
    /\ pc = "avail"
    /\ \E out \in e.outs, available \in e.avails :
         LET avail == IF out = "ok" THEN available ELSE 0 IN
         /\ out = "ok" \/ available = 0
         /\ calls' = Append(calls, Call(idx, "account", out, NoOrder, pos, Q(avail, 1)))
         /\ IF out = "neterr" THEN Raise
            ELSE IF avail <= 0 THEN Finish(Reject(<<"no balance">>))
            ELSE /\ pc' = "contract"
                 /\ loc' = [loc EXCEPT !.avail = avail]
                 /\ UNCHANGED << results, accepted, skipped, idx >>
    /\ UNCHANGED << clock, nticks, _seen, _contracts_set, _contracts_last_load, cfg, pos,
                    pending, items, now_t, response >>
    /\ lastRouted' = NoteOutcome

\* lines 266-279 with lines 218-224
GetContract(e) ==
    /\ pc = "contract"
    /\ \E out \in e.outs, meta \in e.cinfos :
         LET cinfo == IF out = "ok" THEN meta ELSE [has |-> FALSE, step |-> QZero]
             step  == StepOf(cinfo)
             qty   == round_down(Desired(loc.avail, cfg.lev, loc.px), step)
             calc  == [avail |-> loc.avail,
                       use |-> Q(loc.avail * USE_BALANCE_RATIO_PCT, 100),
                       lev |-> cfg.lev, px |-> loc.px, step |-> step]
         IN
         /\ out = "ok" \/ ~meta.has
         /\ calls' = Append(calls, Call(idx, "contract", out, NoOrder, pos, step))
         /\ IF out = "neterr" THEN Raise
            ELSE IF ~QPos(qty)
            THEN Finish(Result(FALSE, {"ok", "reason", "calc"}, <<"qty<=0">>, <<>>,
                               QZero, 0, calc))
            ELSE /\ pc' = "buy"
                 /\ loc' = [loc EXCEPT !.qty = qty]
                 /\ UNCHANGED << results, accepted, skipped, idx >>
    /\ UNCHANGED << clock, nticks, _seen, _contracts_set, _contracts_last_load, cfg, pos,
                    pending, items, now_t, response >>
    /\ lastRouted' = NoteOutcome

\* the POST of an order: the exchange executes it when it answers 200, does
\* not when it answers otherwise, and may or may not have when the call raises
PlaceOrder(e, order, res) ==
    \E out \in e.outs, done \in BOOLEAN :
       /\ done = (out \in {"ok", "raw"}) \/ out = "neterr"
       /\ calls' = Append(calls, Call(idx, "order", out, order, pos, QZero))
       /\ pos' = IF done THEN Executed(pos, order) ELSE pos
       /\ IF out = "neterr" THEN Raise
          ELSE Finish([res EXCEPT !.ok = (out \in {"ok", "raw"})])

\* lines 281-293
PlaceBuyOrder(e) ==
    /\ pc = "buy"
    /\ PlaceOrder(e, BuyBody(loc.symbol, loc.qty),
                  Result(FALSE, {"ok", "resp", "qty", "price"}, <<>>, <<>>,
                         loc.qty, loc.px, NoCalc))
    /\ UNCHANGED << clock, nticks, _seen, _contracts_set, _contracts_last_load, cfg,
                    pending, items, now_t, response >>
    /\ lastRouted' = NoteOutcome

\* lines 296-299 with lines 226-240
GetPosSize(e) ==
    /\ pc = "possize"
    /\ \E out \in e.outs :
         LET qty == get_pos_size(get_positions(out, pos), loc.symbol) IN
         /\ calls' = Append(calls, Call(idx, "positions", out, NoOrder, pos, QZero))
         /\ IF out = "neterr" THEN Raise
            ELSE IF qty <= 0 THEN Finish(Skip(<<"no position">>))
            ELSE /\ pc' = "sell"
                 /\ loc' = [loc EXCEPT !.qty = Q(qty, 1)]
                 /\ UNCHANGED << results, accepted, skipped, idx >>
    /\ UNCHANGED << clock, nticks, _seen, _contracts_set, _contracts_last_load, cfg, pos,
                    pending, items, now_t, response >>
    /\ lastRouted' = NoteOutcome

\* lines 300-312
PlaceCloseOrder(e) ==
    /\ pc = "sell"
    /\ PlaceOrder(e, CloseBody(loc.symbol, loc.qty),
                  Result(FALSE, {"ok", "resp", "qty"}, <<>>, <<>>, loc.qty, 0, NoCalc))
    /\ UNCHANGED << clock, nticks, _seen, _contracts_set, _contracts_last_load, cfg,
                    pending, items, now_t, response >>
    /\ lastRouted' = NoteOutcome

\* the handler returns: its locals are gone
Return ==
    /\ pc' = "sent"
    /\ items' = <<>>
    /\ idx' = 1
    /\ now_t' = 0
    /\ accepted' = 0
    /\ skipped' = 0
    /\ results' = <<>>
    /\ loc' = NoLoc

\* lines 382-385
Respond ==
    /\ pc = "loop"
    /\ idx > Len(items)
    /\ response' = NormalResponse(accepted, skipped, items, results)
    /\ Return
    /\ UNCHANGED << clock, nticks, _seen, _contracts_set, _contracts_last_load, cfg, pos,
                    pending, calls, lastRouted >>

\* an exception handler that also forgets the recorded keys
ExceptForget ==
    /\ pc = "except"
    /\ response' = UnhandledResponse
    /\ Return
    /\ _seen' = << >>
    /\ UNCHANGED << clock, nticks, _contracts_set, _contracts_last_load, cfg, pos,
                    pending, calls, lastRouted >>

\* lines 386-388
Except ==
    /\ pc = "except"
    /\ response' = UnhandledResponse
    /\ Return
    /\ UNCHANGED << clock, nticks, _seen, _contracts_set, _contracts_last_load, cfg, pos,
                    pending, calls, lastRouted >>

\* the response has left the server and the connection is closed
Deliver ==
    /\ pc = "sent"
    /\ pc' = "idle"
    /\ response' = NoResponse
    /\ calls' = <<>>
    /\ UNCHANGED << clock, nticks, _seen, _contracts_set, _contracts_last_load, cfg, pos,
                    pending, items, idx, now_t, accepted, skipped, results, loc,
                    lastRouted >>

(***************************************************************************)
(* Specifications                                                          *)
(***************************************************************************)
Book(btc, pendle) == [s \in ExSyms |-> IF s = BTC_UMCBL THEN btc ELSE pendle]

InitWith(locks, levers, books) ==
    /\ clock = 0
    /\ nticks = 0
    /\ _seen = << >>
    /\ _contracts_set = {}
    /\ _contracts_last_load = 0
    /\ cfg \in [lock : locks, lev : levers]
    /\ pos \in books
    /\ pending = EmptyBag
    /\ pc = "boot"
    /\ items = <<>>
    /\ idx = 1
    /\ now_t = 0
    /\ accepted = 0
    /\ skipped = 0
    /\ results = <<>>
    /\ loc = NoLoc
    /\ calls = <<>>
    /\ response = NoResponse
    /\ lastRouted = << >>

FullListing == {BTC_UMCBL, BTC_DMCBL, PENDLE_UMCBL}
NoStep == [has |-> FALSE, step |-> QZero]

\* the steps every request takes
Serve(e) == Warmup(e) \/ Tick(e) \/ Arrive(e) \/ Begin \/ Item \/ Resolve(e)
               \/ Respond \/ Except \/ Deliver
\* the steps of place_close and of place_buy
Closing(e) == GetPosSize(e) \/ PlaceCloseOrder(e)
Buying(e) == GetLastPrice(e) \/ GetAccountAvailable(e) \/ GetContract(e) \/ PlaceBuyOrder(e)

(***************************************************************************)
(* Deduplication: the same close signal alone and twice in one batch,      *)
(* redelivered at, within and after the TTL                                *)
(***************************************************************************)
EnvDedup ==
    [bodies |-> { DocBody(CloseBTC), Batch(<<CloseBTC, CloseBTC>>) },
     outs |-> {"ok", "non200", "neterr"}, listings |-> {FullListing}, prices |-> {3},
     avails |-> {10}, cinfos |-> {NoStep}, ticks |-> {1, IDEMP_TTL_SEC}]

InitDedup == InitWith({FALSE}, {1}, {Book(1, 0)})
NextDedup == Serve(EnvDedup) \/ Closing(EnvDedup)
SpecDedup == InitDedup /\ [][NextDedup]_vars

\* an Item step is about to handle a well-formed signal
AtValidItem == pc = "loop" /\ idx <= Len(items) /\ ~InvalidObject(items[idx])

\* C1: a signal whose key was routed at most IDEMP_TTL_SEC before the
\* handler's now_t is not routed again: its result is skipped: duplicate, no
\* exchange call is made for it and the loop moves on; any other well-formed
\* signal is handed to route_signal (once: this very step records it).
C1_RoutedOnce ==
    [][ AtValidItem =>
          LET k == DedupKey(items[idx])
              within == k \in DOMAIN lastRouted /\ now_t - lastRouted[k].t <= IDEMP_TTL_SEC
          IN  IF within
              THEN /\ results' = Append(results, Skip(<<"duplicate">>))
                   /\ calls' = calls
                   /\ pc' = "loop"
                   /\ lastRouted'[k].n = lastRouted[k].n
              ELSE /\ lastRouted'[k].t = now_t
                   /\ lastRouted'[k].n = (IF k \in DOMAIN lastRouted THEN lastRouted[k].n ELSE 0) + 1
      ]_vars

\* C1 witness: the second delivery in a batch was answered skipped: duplicate
\* after the first one was routed and placed its order
C1_Witness ==
    /\ Len(results) = 2
    /\ results[1].has = {"ok", "resp", "qty"}
    /\ results[2] = Skip(<<"duplicate">>)
    /\ \E i \in DOMAIN calls : calls[i].ep = "order"
    /\ \A i \in DOMAIN calls : calls[i].item = 1

\* C2: for a key recorded at t0, is_dup answers duplicate and keeps t0 as long
\* as now_t <= t0 + IDEMP_TTL_SEC, and answers new (recording now_t) as soon
\* as now_t > t0 + IDEMP_TTL_SEC.
C2_WindowFromFirstArrival ==
    [][ (AtValidItem /\ DedupKey(items[idx]) \in DOMAIN _seen) =>
          LET k == DedupKey(items[idx])
              t0 == _seen[k]
          IN  IF now_t <= t0 + IDEMP_TTL_SEC
              THEN /\ results' = Append(results, Skip(<<"duplicate">>))
                   /\ k \in DOMAIN _seen' /\ _seen'[k] = t0
              ELSE /\ _seen'[k] = now_t
                   /\ lastRouted'[k].n = lastRouted[k].n + 1
      ]_vars

\* C2 witness: a key was routed a second time after two duplicates of it had
\* been suppressed inside the first window
C2_Witness ==
    \E k \in DOMAIN lastRouted : lastRouted[k].n = 2 /\ lastRouted[k].pd = 2

(***************************************************************************)
(* Batches: open, close and an unknown action for one symbol in one body   *)
(***************************************************************************)
EnvBatch ==
    [bodies |-> { Batch(<<JNum(<<"7">>), OpenBTC, CloseBTC, HoldBTC>>) },
     outs |-> {"ok", "non200", "neterr"}, listings |-> {FullListing}, prices |-> {3},
     avails |-> {10}, cinfos |-> {NoStep}, ticks |-> {CONTRACTS_TTL_SEC}]

InitBatch == InitWith({FALSE}, {1}, {Book(0, 0)})
NextBatch == Serve(EnvBatch) \/ Buying(EnvBatch) \/ Closing(EnvBatch)
SpecBatch == InitBatch /\ [][NextBatch]_vars

ActionOf(obj) == Lower(DictGet(obj, <<"action">>, JNull).v)

\* the result r is one that the signal obj can produce
OutcomeOf(obj, r) ==
    /\ InvalidObject(obj) <=> r.reason = <<"invalid object">>
    /\ ~InvalidObject(obj) =>
         /\ "price" \in r.has => ActionOf(obj) = <<"open">>
         /\ (r.has = {"ok", "resp", "qty"} \/ r.skipped = <<"no position">>)
               => ActionOf(obj) = <<"close">>
         /\ (r.reason # <<>> /\ Head(r.reason) = "unknown action ")
               => r.reason = <<"unknown action ">> \o ActionOf(obj)
         /\ ActionOf(obj) \notin {<<"open">>, <<"close">>}
               => (r.skipped = <<"duplicate">> \/ r.reason # <<>>)

\* the call made after c sees the book that c left
BookAfter(c) ==
    IF c.ep = "order" /\ c.out \in {"ok", "raw"} THEN Executed(c.held, c.order) ELSE c.held

\* C3: the items of a batch are routed in array order: the exchange calls of
\* the running handler are ordered by item, each call sees the book left by
\* the call before it, exactly one result per handled item is appended, and
\* results[i] is an outcome of items[i].
C3_BatchInOrder ==
    /\ \A j, k \in DOMAIN calls : j < k => calls[j].item <= calls[k].item
    /\ \A k \in DOMAIN calls : k > 1 => calls[k].held = BookAfter(calls[k - 1])
    /\ pc \notin {"idle", "sent"} => \A k \in DOMAIN calls : calls[k].item \in DOMAIN items
    /\ pc = "loop" => Len(results) = idx - 1
    /\ pc \in {"resolve", "lock", "price", "avail", "contract", "buy", "possize", "sell"}
          => (Len(results) = idx - 1 /\ idx \in DOMAIN items
                /\ \A k \in DOMAIN calls : calls[k].item <= idx)
    /\ pc # "except" => \A i \in DOMAIN results : OutcomeOf(items[i], results[i])

\* C3 witness: a three-item batch is finished; the open was filled, the close
\* that follows it sold the position the open produced, the third was rejected
C3_Witness ==
    /\ pc = "loop" /\ Len(items) = 3 /\ idx = 4
    /\ results[1].ok /\ "price" \in results[1].has
    /\ results[2].ok /\ results[2].qty = Q(2, 1)
    /\ results[3].reason = <<"unknown action ", "hold">>
    /\ \E k \in DOMAIN calls : calls[k].ep = "order" /\ calls[k].item = 2
          /\ calls[k].order = CloseBody(BTC_UMCBL, Q(2, 1))

(***************************************************************************)
(* Global long lock: opens on two symbols with the lock enabled            *)
(***************************************************************************)
EnvLock ==
    [bodies |-> { DocBody(OpenBTC), DocBody(OpenPendle) },
     outs |-> {"ok", "non200", "neterr"}, listings |-> {FullListing}, prices |-> {3},
     avails |-> {10}, cinfos |-> {NoStep}, ticks |-> {IDEMP_TTL_SEC}]

InitLock == InitWith({TRUE}, {1}, {Book(0, 0)})
NextLock == Serve(EnvLock) \/ AnyLongOpen(EnvLock) \/ Buying(EnvLock)
SpecLock == InitLock /\ [][NextLock]_vars

Running == pc \notin {"boot", "idle", "sent"}
Held(book) == \E s \in DOMAIN book : book[s] > 0
\* the call c is the position read of any_long_open
IsLockRead(c) == c.ep = "positions" /\ ActionOf(items[c.item]) = <<"open">>
IsBuy(c) == c.ep = "order" /\ c.order.side = "buy"

\* C6 as claimed: with the lock enabled no buy order is placed while a
\* position is open on the exchange, and an open signal handled while one is
\* open does not get past the lock
C6_NoBuyWhilePositionOpen ==
    (Running /\ cfg.lock) =>
       /\ \A k \in DOMAIN calls : IsBuy(calls[k]) => ~Held(calls[k].held)
       /\ (calls # <<>> /\ IsLockRead(calls[Len(calls)]) /\ Held(calls[Len(calls)].held))
             => pc \in {"loop", "except"}

\* C6 amended: with the lock enabled, an open signal whose position read is
\* answered 200 with a position of size > 0 on any symbol is skipped (no buy
\* order, counted ok, skipped: already long <symbol>); a buy order is placed
\* only after a position read of the same item that reported no position,
\* which a read degraded to the empty list does also while one is open.
C6_LockOnReportedPosition ==
    (Running /\ cfg.lock) =>
       /\ \A k \in DOMAIN calls :
            IsBuy(calls[k]) =>
               \E j \in 1..(k - 1) :
                  /\ calls[j].item = calls[k].item
                  /\ IsLockRead(calls[j])
                  /\ calls[j].out # "ok" \/ ~Held(calls[j].held)
       /\ \A k \in DOMAIN calls :
            (IsLockRead(calls[k]) /\ calls[k].out = "ok" /\ Held(calls[k].held)) =>
               /\ k = Len(calls)
               /\ pc = "loop"
               /\ Len(results) >= calls[k].item
               /\ results[calls[k].item].ok
               /\ results[calls[k].item].has = {"ok", "skipped"}
               /\ \E s \in ExSyms : /\ calls[k].held[s] > 0
                                    /\ results[calls[k].item].skipped = <<"already long ">> \o s

\* C6 witness: an open for PENDLE was skipped because BTC is held
C6_Witness ==
    /\ pc = "loop" /\ cfg.lock /\ Len(results) = 1
    /\ DictGet(items[1], <<"symbol">>, JNull).v = TvPendle
    /\ results[1] = Skip(<<"already long ">> \o BTC_UMCBL)
    /\ pos[BTC_UMCBL] > 0 /\ pos[PENDLE_UMCBL] = 0
    /\ \A k \in DOMAIN calls : ~IsBuy(calls[k])

(***************************************************************************)
(* Closing: close signals for a symbol that is held and, once the close    *)
(* was executed, no longer held                                            *)
(***************************************************************************)
EnvClose ==
    [bodies |-> { DocBody(CloseBTC), DocBody(CloseBTC2) },
     outs |-> Outcomes, listings |-> {FullListing}, prices |-> {3},
     avails |-> {10}, cinfos |-> {NoStep}, ticks |-> {IDEMP_TTL_SEC}]

InitClose == InitWith({FALSE}, {1}, {Book(1, 0), Book(2, 1)})
NextClose == Serve(EnvClose) \/ Closing(EnvClose)
SpecClose == InitClose /\ [][NextClose]_vars

\* the call c is the position read of place_close
IsCloseRead(c) == c.ep = "positions" /\ ActionOf(items[c.item]) = <<"close">>
IsSell(c) == c.ep = "order" /\ c.order.side = "sell"
\* the exchange symbol the item of call c resolves to
SymbolOf(c) ==
    CHOOSE y \in Resolutions(DictGet(items[c.item], <<"symbol">>, JNull).v, _contracts_set) : TRUE
Status200(out) == out \in {"ok", "raw"}

\* C7 as claimed: a close whose symbol resolved and is held on the exchange
\* goes on to place its order
C7_HeldPositionIsClosed ==
    (Running /\ calls # <<>> /\ IsCloseRead(calls[Len(calls)])
       /\ calls[Len(calls)].held[SymbolOf(calls[Len(calls)])] > 0)
          => pc \in {"sell", "except"}

\* C7 amended: a close whose position read is answered 200 with a size q > 0
\* for the resolved symbol makes exactly one order call, a reduce-only sell
\* of size q for that symbol, and every sell order is of this kind; the
\* result, when the order call is answered, is ok iff the answer was 200.
C7_CloseReportedSize ==
    Running =>
       /\ \A k \in DOMAIN calls :
            (IsCloseRead(calls[k]) /\ calls[k].out = "ok" /\ calls[k].held[SymbolOf(calls[k])] > 0) =>
               LET q == calls[k].held[SymbolOf(calls[k])] IN
               IF k = Len(calls)
               THEN pc = "sell" /\ loc.symbol = SymbolOf(calls[k]) /\ loc.qty = Q(q, 1)
               ELSE /\ calls[k + 1].item = calls[k].item
                    /\ calls[k + 1].ep = "order"
                    /\ calls[k + 1].order = [symbol |-> SymbolOf(calls[k]), size |-> Q(q, 1),
                                             side |-> "sell", reduceOnly |-> "true"]
                    /\ \A m \in DOMAIN calls : m > k + 1 => calls[m].item # calls[k].item
       /\ \A k \in DOMAIN calls :
            IsSell(calls[k]) =>
               /\ k > 1 /\ IsCloseRead(calls[k - 1]) /\ calls[k - 1].out = "ok"
               /\ calls[k - 1].item = calls[k].item
               /\ calls[k].order.reduceOnly = "true"
               /\ calls[k].order.size = Q(calls[k - 1].held[calls[k].order.symbol], 1)
               /\ (pc # "except" /\ Len(results) >= calls[k].item) =>
                     /\ results[calls[k].item].ok <=> Status200(calls[k].out)
                     /\ results[calls[k].item].qty = calls[k].order.size

\* C7 witness: a close of the held BTC position was answered 200 and is
\* reported ok with the full size 2
C7_Witness ==
    /\ pc = "loop" /\ Len(results) = 1 /\ results[1].ok /\ results[1].qty = Q(2, 1)
    /\ calls[Len(calls)].order = [symbol |-> BTC_UMCBL, size |-> Q(2, 1),
                                  side |-> "sell", reduceOnly |-> "true"]
    /\ calls[Len(calls)].held[BTC_UMCBL] = 2 /\ pos[BTC_UMCBL] = 0

\* C8 as claimed: a close for a symbol that is not held comes back from
\* place_close as ok with skipped: "no position", without an order call
C8_NoPositionSkipped ==
    /\ \A k \in DOMAIN calls : IsSell(calls[k]) => calls[k].held[calls[k].order.symbol] > 0
    /\ (Running /\ calls # <<>> /\ IsCloseRead(calls[Len(calls)])
          /\ calls[Len(calls)].held[SymbolOf(calls[Len(calls)])] = 0)
             => /\ pc = "loop"
                /\ Len(results) >= calls[Len(calls)].item
                /\ results[calls[Len(calls)].item] = Skip(<<"no position">>)

(***************************************************************************)
(* Sizing: one open signal against every price, balance, step and leverage *)
(***************************************************************************)
EnvBuy ==
    [bodies |-> { DocBody(OpenBTC) },
     outs |-> {"ok", "non200", "neterr"}, listings |-> {FullListing},
     prices |-> {0, 3, 100}, avails |-> {0, 1, 10, 1000},
     cinfos |-> { NoStep, [has |-> TRUE, step |-> Q(0, 1)], [has |-> TRUE, step |-> Q(1, 1)],
                  [has |-> TRUE, step |-> Q(2, 1)], [has |-> TRUE, step |-> Q(1, 100)] },
     ticks |-> {IDEMP_TTL_SEC}]

InitBuy == InitWith({FALSE}, {0, 3}, {Book(0, 0)})
NextBuy == Serve(EnvBuy) \/ Buying(EnvBuy)
SpecBuy == InitBuy /\ [][NextBuy]_vars

\* q is a whole multiple of step
IsMultiple(q, step) ==
    IF step.n > 0 THEN (q.n * step.d) % (step.n * q.d) = 0 ELSE q.n = 0
\* a - q < step
WithinOneStep(a, q, step) ==
    (a.n * q.d - q.n * a.d) * step.d < step.n * a.d * q.d

\* the three reads of place_buy come right before its order
ReadsBefore(k) ==
    /\ k >= 4
    /\ calls[k - 3].ep = "ticker" /\ calls[k - 2].ep = "account" /\ calls[k - 1].ep = "contract"
    /\ \A j \in (k - 3)..(k - 1) : calls[j].item = calls[k].item /\ calls[j].out # "neterr"

\* the rejections of place_buy: no order after a price <= 0, a balance <= 0
\* or a quantity <= 0, and the matching reject as the result
BuyRejects ==
    \A k \in DOMAIN calls :
       /\ (calls[k].ep = "ticker" /\ calls[k].out # "neterr" /\ calls[k].ret.n <= 0) =>
             /\ k = Len(calls) /\ pc = "loop"
             /\ results[calls[k].item] = Reject(<<"no price">>)
       /\ (calls[k].ep = "account" /\ calls[k].out # "neterr" /\ calls[k].ret.n <= 0) =>
             /\ k = Len(calls) /\ pc = "loop"
             /\ results[calls[k].item] = Reject(<<"no balance">>)
       /\ (calls[k].ep = "contract" /\ calls[k].out # "neterr"
             /\ ~QPos(round_down(Desired(calls[k - 1].ret.n, cfg.lev, calls[k - 2].ret.n),
                                 calls[k].ret))) =>
             /\ k = Len(calls) /\ pc = "loop"
             /\ ~results[calls[k].item].ok
             /\ results[calls[k].item].reason = <<"qty<=0">>
             /\ "calc" \in results[calls[k].item].has
             /\ results[calls[k].item].calc =
                   [avail |-> calls[k - 1].ret.n,
                    use |-> Q(calls[k - 1].ret.n * USE_BALANCE_RATIO_PCT, 100),
                    lev |-> cfg.lev, px |-> calls[k - 2].ret.n, step |-> calls[k].ret]

RouteItems == << NoSymbolSig, NoActionSig, NoSymbolKey, NumAction, HoldNope, HoldBTC, OpenPendle >>

EnvRoute ==
    [bodies |-> { Batch(RouteItems) },
     outs |-> {"ok", "non200", "neterr"}, listings |-> {FullListing},
     prices |-> {3}, avails |-> {10}, cinfos |-> {NoStep}, ticks |-> {CONTRACTS_TTL_SEC}]

InitRoute == InitWith({FALSE}, {1}, {Book(0, 0)})
NextRoute == Serve(EnvRoute) \/ Buying(EnvRoute)
SpecRoute == InitRoute /\ [][NextRoute]_vars

\* the signal lacks action or symbol (lines 362 and 318)
Missing(obj) ==
    InvalidObject(obj)
       \/ MissingFields(ActionOf(obj), DictGet(obj, <<"symbol">>, JNull).v)
\* the signal has an action other than open and close
OtherAction(obj) == ~Missing(obj) /\ ActionOf(obj) \notin {<<"open">>, <<"close">>}
\* the item was handed to route_signal, not suppressed as a duplicate
Routed(i) == i \in DOMAIN results /\ results[i] # Skip(<<"duplicate">>)
CallsOf(i) == { k \in DOMAIN calls : calls[k].item = i }
OrdersOf(i) == { k \in CallsOf(i) : calls[k].ep = "order" }

\* orders only for open and close; nothing but a reject for a signal without
\* action or symbol
OrdersAndMissing ==
    /\ \A k \in DOMAIN calls :
          calls[k].ep = "order" =>
             /\ ~Missing(items[calls[k].item])
             /\ ActionOf(items[calls[k].item]) \in {<<"open">>, <<"close">>}
             /\ calls[k].order.symbol # NoSymbol
    /\ \A i \in DOMAIN items :
          (Missing(items[i]) /\ Routed(i)) =>
             /\ ~results[i].ok
             /\ results[i].reason \in {<<"invalid object">>, <<"missing fields">>}
             /\ CallsOf(i) = {}

\* C10 as claimed: an order is placed only for an open or close signal whose
\* symbol resolved, a signal without action or symbol is rejected with no
\* exchange call, and a signal with any other action is rejected as unknown
\* action without an order
C10_OtherActionIsUnknown ==
    Running =>
       /\ OrdersAndMissing
       /\ \A i \in DOMAIN items :
             (OtherAction(items[i]) /\ Routed(i)) =>
                /\ results[i] = Reject(<<"unknown action ">> \o ActionOf(items[i]))
                /\ OrdersOf(i) = {}

\* C10 amended: an order is placed only for an open or close signal whose
\* symbol resolved; a routed signal without action or symbol is rejected
\* with no exchange call; a routed signal with any other action places no
\* order, and once its symbol resolution returns it is rejected as unknown
\* action when the symbol resolved and as symbol resolve failed when it did
\* not.
C10_OrdersOnlyForOpenClose ==
    /\ [](Running =>
            /\ OrdersAndMissing
            /\ \A i \in DOMAIN items :
                  (OtherAction(items[i]) /\ Routed(i)) =>
                     /\ ~results[i].ok
                     /\ OrdersOf(i) = {}
                     /\ \A k \in CallsOf(i) : calls[k].ep = "contracts")
    /\ [][(pc = "resolve" /\ pc' # "resolve" /\ loc.act \notin {<<"open">>, <<"close">>}) =>
            \/ pc' = "except"
            \/ /\ pc' = "loop"
               /\ Len(results') = Len(results) + 1
               /\ LET r == results'[Len(results')] IN
                  \/ /\ r = Reject(<<"unknown action ">> \o loc.act)
                     /\ Resolutions(loc.sym_tv, _contracts_set') # {NoSymbol}
                  \/ /\ r = Reject(<<"symbol resolve failed for ">> \o loc.sym_tv)
                     /\ NoSymbol \in Resolutions(loc.sym_tv, _contracts_set')]_vars

\* C10 witness: the whole batch is routed with the index loaded: four
\* rejects without a call, hold on an unlisted symbol rejected as resolve
\* failed, hold on a listed one as unknown action, and the open signal's order
C10_Witness ==
    /\ pc = "loop" /\ Len(results) = Len(RouteItems) /\ Len(items) = Len(RouteItems)
    /\ _contracts_set = FullListing
    /\ \A i \in 1..4 : ~results[i].ok /\ CallsOf(i) = {}
    /\ results[1].reason = <<"missing fields">>
    /\ results[3].reason = <<"invalid object">>
    /\ results[5] = Reject(<<"symbol resolve failed for ">> \o TvNope)
    /\ results[6] = Reject(<<"unknown action ">> \o <<"hold">>)
    /\ OrdersOf(7) # {}

\* the results that report a suppressed duplicate
Dups(rs) == {i \in DOMAIN rs : rs[i] = Skip(<<"duplicate">>)}
\* accepted and skipped as the claim counts them over the results rs
CountsOf(rs, acc, skp) ==
    /\ acc = Cardinality({i \in DOMAIN rs \ Dups(rs) : rs[i].ok})
    /\ skp = Cardinality({i \in DOMAIN rs : rs[i].reason = <<"invalid object">>})
               + Cardinality({i \in DOMAIN rs : ~rs[i].ok /\ rs[i].reason # <<"invalid object">>})
    /\ acc + skp = Len(rs) - Cardinality(Dups(rs))

\* C20: in every response but the unhandled one, items is the number of
\* parsed signals and the length of results, accepted counts the routed
\* results with ok true, skipped the invalid objects and the routed results
\* with ok false, duplicates are in neither; the counters of the running
\* handler agree with the results appended so far
C20_Counts ==
    /\ [](/\ (pc = "sent" /\ response.err = "") =>
               /\ response.items = Len(response.results)
               /\ CountsOf(response.results, response.accepted, response.skipped)
          /\ Running /\ pc # "except" =>
               /\ CountsOf(results, accepted, skipped)
               /\ Len(results) = idx - 1)
    /\ [][(pc = "loop" /\ pc' = "sent") =>
            /\ response'.items = Len(items) /\ response'.results = results
            /\ response'.accepted = accepted /\ response'.skipped = skipped
            /\ response'.err = ""]_vars

\* C20 witness: the batch of seven was delivered again: two invalid objects
\* skipped again, five duplicates counted in neither
C20_Witness ==
    /\ pc = "sent" /\ response.err = "" /\ response.items = 7
    /\ response.accepted = 0 /\ response.skipped = 2
    /\ Cardinality(Dups(response.results)) = 5

(***************************************************************************)
(* Resolution: listed, unlisted and overridden symbols against a contract  *)
(* index that is loaded, reloaded with another listing, or fails to load   *)
(***************************************************************************)
PendleListing == {PENDLE_UMCBL}

EnvResolve ==
    [bodies |-> { Batch(<<CloseBTC, CloseBTC2>>) },
     outs |-> Outcomes, listings |-> {FullListing, PendleListing, {}},
     prices |-> {3}, avails |-> {10}, cinfos |-> {NoStep}, ticks |-> {CONTRACTS_TTL_SEC}]

InitResolve == InitWith({FALSE}, {1}, {Book(0, 0)})
NextResolve == Serve(EnvResolve) \/ GetPosSize(EnvResolve)
SpecResolve == InitResolve /\ [][NextResolve]_vars

\* lines 123-126: the external symbol without venue prefix and ".P"
BasePair(tv_symbol) ==
    LET sym0 == AfterLastColon(Upper(tv_symbol))
    IN  IF EndsWith(sym0, ".P") THEN SubSeq(sym0, 1, Len(sym0) - 1) ELSE sym0
\* line 118
Overridden(tv_symbol) == DictHas(CUSTOM_OVERRIDES, Upper(tv_symbol))
\* this step leaves resolve_tv_symbol
LeavesResolve == pc = "resolve" /\ pc' # "resolve"
\* this step is one run of load_contracts_if_stale that asked the exchange
Refreshes ==
    /\ Len(calls') = Len(calls) + 1
    /\ calls'[Len(calls')].ep = "contracts"

\* C11 as claimed: a symbol that is neither listed nor overridden gives the
\* reject of the item, no exception, and the loop goes on with the next item
C11_AbsentSymbolRejected ==
    [][(LeavesResolve /\ Resolutions(loc.sym_tv, _contracts_set') = {NoSymbol}) =>
          /\ pc' = "loop"
          /\ idx' = idx + 1
          /\ results' = Append(results, Reject(<<"symbol resolve failed for ">> \o loc.sym_tv))
          /\ skipped' = skipped + 1 /\ accepted' = accepted
          /\ \A k \in DOMAIN calls' : calls'[k].item = idx => calls'[k].ep = "contracts"]_vars

\* C12: a refresh answered 200 with a non-empty listing makes the index
\* exactly that listing and the load time the current time; any other answer,
\* and any step that is not a refresh, leaves index and load time as they were
C12_ReplaceOnSuccess ==
    [][IF Refreshes
       THEN LET c == calls'[Len(calls')] IN
            IF c.out = "ok" /\ c.ret # {}
            THEN _contracts_set' = c.ret /\ _contracts_last_load' = clock
            ELSE UNCHANGED << _contracts_set, _contracts_last_load >>
       ELSE UNCHANGED << _contracts_set, _contracts_last_load >>]_vars

\* C12 witness: the close of the first item found BTCUSDT in the index, then
\* the index was reloaded with a listing without it, and the second item
\* finds nothing of the old index left
C12_Witness ==
    /\ pc = "loop" /\ Len(results) = 2
    /\ results[1] = Skip(<<"no position">>)
    /\ results[2] = Reject(<<"symbol resolve failed for ">> \o TvBTC)
    /\ calls[Len(calls)].ep = "contracts" /\ calls[Len(calls)].out = "ok"
    /\ calls[Len(calls)].item = 2 /\ calls[Len(calls)].ret = PendleListing
    /\ _contracts_set = PendleListing /\ _contracts_last_load = clock

\* C13: a symbol that resolve returns through the index is a member of the
\* current index, and it is base_UMCBL whenever the index has base_UMCBL
C13_ResolvedFromIndex ==
    [][(LeavesResolve /\ pc' \in {"lock", "price", "possize"} /\ ~Overridden(loc.sym_tv)) =>
          /\ loc'.symbol \in _contracts_set'
          /\ StartsWith(loc'.symbol, BasePair(loc.sym_tv))
          /\ (BasePair(loc.sym_tv) \o <<"_UMCBL">> \in _contracts_set')
                => loc'.symbol = BasePair(loc.sym_tv) \o <<"_UMCBL">>]_vars

\* C13 witness: BTCUSDT is listed with both suffixes and resolved to _UMCBL
C13_Witness ==
    /\ pc = "possize" /\ loc.sym_tv = TvBTC /\ loc.symbol = BTC_UMCBL
    /\ {BTC_UMCBL, BTC_DMCBL} \subseteq _contracts_set

(***************************************************************************)
(* Override: a close for the one overridden symbol while the index loads,  *)
(* fails to load, or is stale                                              *)
(***************************************************************************)
EnvOverride ==
    [bodies |-> { DocBody(ClosePendle) },
     outs |-> {"ok", "non200", "neterr"}, listings |-> {FullListing, {BTC_UMCBL}, {}},
     prices |-> {3}, avails |-> {10}, cinfos |-> {NoStep}, ticks |-> {CONTRACTS_TTL_SEC}]

InitOverride == InitWith({FALSE}, {1}, {Book(0, 0)})
NextOverride == Serve(EnvOverride) \/ GetPosSize(EnvOverride)
SpecOverride == InitOverride /\ [][NextOverride]_vars

\* C14 as claimed: an external symbol with an override entry resolves to the
\* override value whatever the index holds and whatever its refresh does
C14_OverrideWins ==
    [][(LeavesResolve /\ Overridden(loc.sym_tv)) =>
          /\ pc' \in {"lock", "price", "possize"}
          /\ loc'.symbol = DictGet(CUSTOM_OVERRIDES, Upper(loc.sym_tv), NoSymbol)]_vars

(***************************************************************************)
(* Parsing: a single object with mixed-case keys, and a two-line body      *)
(* whose first line is a signal and whose second line is not JSON          *)
(***************************************************************************)
BadLinesBody == LinesBody(<< DocLine(CloseBTC), GarbageLine >>)

EnvParse ==
    [bodies |-> { DocBody(MixedCaseClose), BadLinesBody },
     outs |-> {"ok", "non200"}, listings |-> {FullListing},
     prices |-> {3}, avails |-> {10}, cinfos |-> {NoStep}, ticks |-> {IDEMP_TTL_SEC}]

InitParse == InitWith({FALSE}, {1}, {Book(1, 0)})
NextParse == Serve(EnvParse) \/ Closing(EnvParse)
SpecParse == InitParse /\ [][NextParse]_vars

\* this step starts the handler of the request with body raw
Begins(raw) ==
    /\ pc = "idle" /\ pc' \in {"loop", "except"}
    /\ BagIn(raw, pending)
    /\ pending' = pending (-) SetToBag({raw})
\* json.loads rejects the body as a whole and one of its lines
Unparsable(raw) ==
    raw.kind = "lines" /\ \E i \in DOMAIN raw.lines : raw.lines[i].kind = "garbage"
\* a non-blank line of the line-by-line fallback is not a JSON object
HasBadLine(raw) ==
    /\ raw.kind = "lines"
    /\ \E i \in DOMAIN raw.lines :
          raw.lines[i].kind # "blank"
             /\ ~(raw.lines[i].kind = "doc" /\ raw.lines[i].val.t = "obj")
\* the body is one JSON object that is not a batch envelope
SingleObject(raw) ==
    /\ raw.kind = "doc" /\ raw.val.t = "obj"
    /\ ~\E i \in DOMAIN raw.val.v :
          raw.val.v[i][1] = <<"batch">> /\ raw.val.v[i][2].t = "list"
\* the parse failed before any item was looked at
ParseFailed == pc = "except" /\ calls = <<>>

C16_AllOrNothing ==
    /\ [][\A raw \in BagToSet(pending) :
            (Begins(raw) /\ HasBadLine(raw)) =>
               /\ pc' = "except" /\ items' = <<>> /\ results' = <<>> /\ calls' = <<>>
               /\ UNCHANGED << _seen, lastRouted, pos >>]_vars
    /\ [][ParseFailed =>
            /\ pc' = "sent" /\ calls' = <<>> /\ response'.err = "unhandled"
            /\ UNCHANGED << _seen, lastRouted, pos >>]_vars

\* C16 witness: the handler of the two-line body has failed, the close
\* signal of its first line has left no trace
C16_Witness ==
    /\ ParseFailed /\ items = <<>> /\ results = <<>>
    /\ DOMAIN _seen = {} /\ DOMAIN lastRouted = {}
    /\ pos[BTC_UMCBL] = 1

\* C17: a body that is one JSON object gives exactly one signal; its keys are
\* the lower-cased keys of the object, and the value of each is the value the
\* object has for it (for the last key in document order that lower-cases to it)
C17_SingleObject ==
    [][\A raw \in BagToSet(pending) :
          (Begins(raw) /\ SingleObject(raw)) =>
             /\ pc' = "loop" /\ Len(items') = 1
             /\ LET sig == items'[1]
                    ps == raw.val.v
                IN  /\ {sig[i][1] : i \in DOMAIN sig} = {Lower(ps[j][1]) : j \in DOMAIN ps}
                    /\ \A i, k \in DOMAIN sig : sig[i][1] = sig[k][1] => i = k
                    /\ \A i \in DOMAIN sig :
                          \E j \in DOMAIN ps :
                             /\ Lower(ps[j][1]) = sig[i][1]
                             /\ sig[i][2] = ps[j][2]
                             /\ \A m \in DOMAIN ps : m > j => Lower(ps[m][1]) # sig[i][1]]_vars

\* C17 witness: the object with the keys Action, SYMBOL and Time is the one
\* signal with the keys action, symbol and time and the values as sent
C17_Witness ==
    /\ pc = "loop" /\ idx = 1
    /\ items = << << << <<"action">>, JStr(<<"CLOSE">>) >>, << <<"symbol">>, JStr(TvBTC) >>,
                     << <<"time">>, JStr(<<"t1">>) >> >> >>

(***************************************************************************)
(* Concurrency: copies of one close signal that arrive together, or while  *)
(* the handler of another copy is running, all inside one TTL              *)
(***************************************************************************)
EnvConc ==
    [bodies |-> { DocBody(CloseBTC) },
     outs |-> {"ok", "non200", "neterr"}, listings |-> {FullListing},
     prices |-> {3}, avails |-> {10}, cinfos |-> {NoStep}, ticks |-> {1}]

InitConc == InitWith({FALSE}, {1}, {Book(1, 0)})
NextConc == Serve(EnvConc) \/ ArriveBusy(EnvConc) \/ Closing(EnvConc)
SpecConc == InitConc /\ [][NextConc]_vars

EnvRetry ==
    [bodies |-> { DocBody(OpenBTC) },
     outs |-> {"ok", "non200", "neterr"}, listings |-> {FullListing, {}},
     prices |-> {0, 3}, avails |-> {0, 10},
     cinfos |-> { NoStep, [has |-> TRUE, step |-> Q(100, 1)] },
     ticks |-> {1, IDEMP_TTL_SEC}]

InitRetry == InitWith({FALSE}, {1}, {Book(0, 0)})
NextRetry == Serve(EnvRetry) \/ Buying(EnvRetry)
SpecRetry == InitRetry /\ [][NextRetry]_vars

\* the handler is inside route_signal or in the except clause
Routing == pc \in {"resolve", "lock", "price", "avail", "contract", "buy", "possize", "sell",
                   "except"}

\* C19: the key is recorded by the step that hands the signal to
\* route_signal, before any exchange call; no step of the routing, failed or
\* not, and no exception removes it; a redelivery of a key whose routing
\* failed, at most TTL after it, is answered skipped: duplicate with ok true,
\* without an exchange call and without being counted
C19_FailedNotRetried ==
    /\ [][(AtValidItem /\ pc' = "resolve") =>
            /\ DedupKey(items[idx]) \in DOMAIN _seen'
            /\ _seen'[DedupKey(items[idx])] = now_t
            /\ calls' = calls]_vars
    /\ [][Routing => _seen' = _seen]_vars
    /\ [][AtValidItem =>
            LET k == DedupKey(items[idx]) IN
            (k \in DOMAIN lastRouted /\ lastRouted[k].res = "failed"
               /\ now_t - lastRouted[k].t <= IDEMP_TTL_SEC) =>
                  /\ results' = Append(results, Skip(<<"duplicate">>))
                  /\ results'[Len(results')].ok
                  /\ calls' = calls /\ pos' = pos
                  /\ accepted' = accepted /\ skipped' = skipped
                  /\ _seen' = _seen /\ _seen[k] = lastRouted[k].t
                  /\ lastRouted'[k].n = lastRouted[k].n]_vars

\* C19 witness: the routing of the open signal failed, its redelivery TTL
\* later is reported duplicate and nothing was bought
C19_Witness ==
    /\ pc = "loop" /\ results = << Skip(<<"duplicate">>) >> /\ calls = <<>>
    /\ \E k \in DOMAIN lastRouted :
          /\ lastRouted[k].res = "failed" /\ lastRouted[k].n = 1
          /\ now_t = lastRouted[k].t + IDEMP_TTL_SEC
    /\ pos = Book(0, 0)

(***************************************************************************)
(* The whole router against an exchange that may fail at every call        *)
(***************************************************************************)
NextOf(e) == Serve(e) \/ AnyLongOpen(e) \/ Buying(e) \/ Closing(e)


Env ==
    [bodies |-> { Batch(<<OpenBTC, CloseBTC>>), LinesBody(<<DocLine(HoldBTC), GarbageLine>>) },
     outs |-> Outcomes, listings |-> {FullListing}, prices |-> {3}, avails |-> {10},
     cinfos |-> {NoStep}, ticks |-> {CONTRACTS_TTL_SEC}]

Init == InitWith({TRUE}, {1}, {Book(0, 0)})
Next == NextOf(Env)
Spec == Init /\ [][Next]_vars

\* C4: every response that is sent is a 200 with ok: true, a handler that
\* has finished has sent one, a response after a failed exchange call is the
\* "unhandled" one, and whatever fault reaches the outermost handler is
\* answered 200 with err: "unhandled".
C4_Always200 ==
    /\ [](/\ response # NoResponse => (response.status = 200 /\ response.ok /\ "ok" \in response.has)
          /\ (pc = "sent") <=> (response # NoResponse)
          /\ (pc = "sent" /\ \E k \in DOMAIN calls : calls[k].out = "neterr")
                => response.err = "unhandled"
          /\ (pc = "sent" /\ response.err # "unhandled")
                => (response.err = "" /\ "results" \in response.has))
    /\ [][pc = "except" => (pc' = "sent" /\ response'.status = 200 /\ response'.ok
                              /\ response'.err = "unhandled")]_vars

\* C4 witness: a request whose exchange call raised has been answered 200
\* with the unhandled marker
C4_Witness ==
    /\ pc = "sent" /\ response.status = 200 /\ response.err = "unhandled"
    /\ calls # <<>> /\ calls[Len(calls)].out = "neterr"

\* C5 as claimed: no failed read leaves route_signal by an exception
C5_ReadsNeverRaise ==
    ~(pc = "except" /\ calls # <<>> /\ calls[Len(calls)].ep # "order")

====
